---- MODULE Spec2Model ----
(***************************************************************************)
(* Task switching and signal delivery of the Tilck kernel.                 *)
(*                                                                         *)
(*   src/kernel/signal.c    pending-signal bitmask, default actions,       *)
(*                          send_signal2, the signal syscalls              *)
(*   src/unnamed/part_000   kthread_create2, switch_to_task (riscv)        *)
(*                                                                         *)
(* One core.  The C functions are operators from a kernel state k (a       *)
(* record of the variables below) to the kernel state they leave, so that  *)
(* a callee's effects are composed in the order the code runs them.  The   *)
(* functions the two files call but do not define (terminate_process,      *)
(* kernel_yield_preempt_disabled, task_change_state, the scheduler) are    *)
(* modelled from the specification and are marked so in MODEL_MAP.json.    *)
(***************************************************************************)
EXTENDS Integers, Sequences, FiniteSets, TLC

VARIABLES
    tasks,                  \* tid -> struct task (the fields the code reads)
    procs,                  \* pid -> struct process: sa_handlers, sa_mask
    curr,                   \* get_curr_task()
    preempt_disable_count,  \* the preemption gate (0 = preemption enabled)
    interrupts_enabled,     \* the core's interrupt-enable flag
    pc,                     \* where the core is: "run", "sched" or a step of switch_to_task
    sw_ti,                  \* switch_to_task's argument while a switch is in progress
    events,                 \* what the last operation emitted: traces, wake-ups, printk
    last                    \* the last operation, its arguments and its return value

vars == <<tasks, procs, curr, preempt_disable_count, interrupts_enabled,
          pc, sw_ti, events, last>>

----------------------------------------------------------------------------
\* Program constants

NBITS == 32
K_SIGACTION_MASK_WORDS == 2
_NSIG == 64

SIGHUP == 1
SIGINT == 2
SIGQUIT == 3
SIGILL == 4
SIGTRAP == 5
SIGABRT == 6
SIGBUS == 7
SIGFPE == 8
SIGKILL == 9
SIGUSR1 == 10
SIGSEGV == 11
SIGUSR2 == 12
SIGPIPE == 13
SIGALRM == 14
SIGTERM == 15
SIGCHLD == 17
SIGCONT == 18
SIGSTOP == 19
SIGTSTP == 20
SIGTTIN == 21
SIGTTOU == 22
SIGURG == 23
SIGXCPU == 24
SIGXFSZ == 25
SIGVTALRM == 26
SIGPROF == 27
SIGPOLL == 29
SIGSYS == 31

ESRCH == 3
EINVAL == 22
EFAULT == 14
ENOMEM == 12
EAGAIN == 11

TASK_STATE_RUNNABLE == "RUNNABLE"
TASK_STATE_RUNNING == "RUNNING"
TASK_STATE_SLEEPING == "SLEEPING"
TASK_STATE_ZOMBIE == "ZOMBIE"
TASK_STATE_INVALID == "INVALID"

WOBJ_NONE == "WOBJ_NONE"
WOBJ_KCOND == "WOBJ_KCOND"
WOBJ_KMUTEX == "WOBJ_KMUTEX"
WOBJ_SEM == "WOBJ_SEM"

SIG_DFL == "SIG_DFL"
SIG_IGN == "SIG_IGN"

\* wstatus values: STOPCODE(signum), CONTINUED, and what terminate_process records
NoStatus == [code |-> "none", sig |-> 0]
STOPCODE(signum) == [code |-> "stopped", sig |-> signum]
CONTINUED == [code |-> "continued", sig |-> 0]
TERMCODE(signum) == [code |-> "terminated", sig |-> signum]

----------------------------------------------------------------------------
\* The tasks and processes of the model

\* Thread ids the callers may name; those above the live tasks name no task
MaxTid == 4

\* The deepest nesting of disable_preemption() that is explored
MaxNesting == 2

InitTid == 1
UserTid == InitTid + 1
KthreadTid == InitTid + 2
Tids == {InitTid, UserTid, KthreadTid}
KernelPid == 0
Pids == {InitTid, UserTid, KernelPid}

\* The signal numbers the callers send
SendSigs == {0, SIGCHLD, SIGCONT, SIGSTOP, 40}

\* A user-installed handler address
UserHandler == "handler"

EmptyMask == [slot \in 0..(K_SIGACTION_MASK_WORDS - 1) |-> {}]

\* The state as one record, the argument and the result of the C functions
K == [tasks |-> tasks, procs |-> procs, curr |-> curr,
      preempt |-> preempt_disable_count, irq |-> interrupts_enabled,
      pc |-> pc, events |-> <<>>, rc |-> 0]

Emit(k, e) == [k EXCEPT !.events = Append(@, e)]

get_task(k, tid) == IF tid \in DOMAIN k.tasks THEN tid ELSE 0

is_kernel_thread(k, ti) == k.tasks[ti].pid = KernelPid

is_preemption_enabled(k) == k.preempt = 0

disable_preemption(k) == [k EXCEPT !.preempt = @ + 1]

enable_preemption(k) == [k EXCEPT !.preempt = @ - 1]

\* A failed ASSERT() stops the kernel: no operation runs after it
panic(k) == [k EXCEPT !.pc = "panic"]

----------------------------------------------------------------------------
\* Collaborators of the two files, modelled from the specification

\* task_change_state(ti, new_state)
task_change_state(k, ti, new_state) ==
    [k EXCEPT !.tasks[ti].state = new_state,
              !.tasks[ti].wobj = IF new_state = TASK_STATE_SLEEPING THEN @ ELSE WOBJ_NONE]

\* terminate_process(exit_code, term_sig): called with preemption enabled; tears
\* the current process down, leaves the current task ZOMBIE with the signal as
\* cause and enters the scheduler; it never returns to its caller
terminate_process(k, exit_code, term_sig) ==
    LET z == task_change_state(k, k.curr, TASK_STATE_ZOMBIE)
    IN [z EXCEPT !.tasks[k.curr].wstatus = TERMCODE(term_sig),
                 !.preempt = 1,
                 !.pc = "sched"]

\* wake_up_tasks_waiting_on(ti, event): observed as a wake event
wake_up_tasks_waiting_on(k, ti, event) ==
    Emit(k, [ev |-> "wake", tid |-> ti, signum |-> 0, event |-> event])

\* trace_signal_delivered(tid, signum)
trace_signal_delivered(k, tid, signum) ==
    Emit(k, [ev |-> "trace", tid |-> tid, signum |-> signum, event |-> ""])

\* printk("WARNING: ignoring signal ... sent to init")
printk_warning(k, ti, signum) ==
    Emit(k, [ev |-> "printk", tid |-> ti, signum |-> signum, event |-> ""])

\* kernel_yield_preempt_disabled(): the caller stops running, its kernel context
\* is saved and the scheduler picks the next task
kernel_yield_preempt_disabled(k) ==
    LET y == task_change_state(k, k.curr, TASK_STATE_RUNNABLE)
    IN [y EXCEPT !.tasks[k.curr].running_in_kernel = TRUE,
                 !.tasks[k.curr].spp = TRUE,
                 !.pc = "sched"]

----------------------------------------------------------------------------
\* The pending-signal bitmask: pending_signums[slot] is a ulong, held as the set
\* of the indexes of its 1 bits

\* Faulty variant of add_pending_sig: the slot wraps around instead of being
\* checked
add_pending_sig_wrap(k, ti, signum) ==
    LET slot == ((signum - 1) \div NBITS) % K_SIGACTION_MASK_WORDS
        index == (signum - 1) % NBITS
    IN IF ~(signum > 0) THEN panic(k)
       ELSE [k EXCEPT !.tasks[ti].pending_signums[slot] = @ \cup {index}]

add_pending_sig(k, ti, signum) ==
    LET slot == (signum - 1) \div NBITS
        index == (signum - 1) % NBITS
    IN IF ~(signum > 0) THEN panic(k)
       ELSE IF slot >= K_SIGACTION_MASK_WORDS
       THEN k
       ELSE [k EXCEPT !.tasks[ti].pending_signums[slot] = @ \cup {index}]

del_pending_sig(k, ti, signum) ==
    LET slot == (signum - 1) \div NBITS
        index == (signum - 1) % NBITS
    IN IF ~(signum > 0) THEN panic(k)
       ELSE IF slot >= K_SIGACTION_MASK_WORDS
       THEN k
       ELSE [k EXCEPT !.tasks[ti].pending_signums[slot] = @ \ {index}]

is_pending_sig(k, ti, signum) ==
    LET slot == (signum - 1) \div NBITS
        index == (signum - 1) % NBITS
    IN IF slot >= K_SIGACTION_MASK_WORDS
       THEN FALSE
       ELSE index \in k.tasks[ti].pending_signums[slot]

RECURSIVE first_set_bit_from(_, _)
first_set_bit_from(val, i) ==
    IF i >= NBITS \/ i \in val THEN i ELSE first_set_bit_from(val, i + 1)

\* Faulty variant of get_first_set_bit_index_l: the highest set bit
get_last_set_bit_index_l(val) ==
    IF val = {} THEN NBITS ELSE CHOOSE i \in val : \A j \in val : j <= i

get_first_set_bit_index_l(val) == first_set_bit_from(val, 0)

RECURSIVE first_pending_from(_, _)
first_pending_from(mask, i) ==
    IF i >= K_SIGACTION_MASK_WORDS
    THEN -1
    ELSE IF mask[i] # {}
         THEN i * NBITS + get_first_set_bit_index_l(mask[i]) + 1
         ELSE first_pending_from(mask, i + 1)

get_first_pending_sig(k, ti) == first_pending_from(k.tasks[ti].pending_signums, 0)

\* process_signals(): looks at get_curr_task(), whatever its caller passes
process_signals(k) ==
    LET sig == get_first_pending_sig(k, k.curr)
    IN IF is_preemption_enabled(k) THEN panic(k)
       ELSE IF sig > 0
       THEN terminate_process(
               enable_preemption(trace_signal_delivered(k, k.curr, sig)), 0, sig)
       ELSE k

----------------------------------------------------------------------------
\* The default actions

\* Faulty variants of action_terminate, which the properties must tell apart
\* from it: waking a task that sleeps on a mutex or on a semaphore,
action_terminate_wake_any(k, ti, signum) ==
    IF ti = k.curr
    THEN terminate_process(enable_preemption(k), 0, signum)
    ELSE LET p == add_pending_sig(k, ti, signum)
         IN IF ~p.tasks[ti].vfork_stopped
            THEN LET w == IF p.tasks[ti].state = TASK_STATE_SLEEPING
                          THEN task_change_state(p, ti, TASK_STATE_RUNNABLE)
                          ELSE p
                 IN [w EXCEPT !.tasks[ti].stopped = FALSE]
            ELSE p

\* marking the signal pending on the current task as well,
action_terminate_pending_first(k, ti, signum) ==
    LET p == add_pending_sig(k, ti, signum)
    IN IF ti = p.curr
       THEN terminate_process(enable_preemption(p), 0, signum)
       ELSE IF ~p.tasks[ti].vfork_stopped
            THEN LET w == IF /\ p.tasks[ti].state = TASK_STATE_SLEEPING
                             /\ p.tasks[ti].wobj # WOBJ_KMUTEX
                             /\ p.tasks[ti].wobj # WOBJ_SEM
                          THEN task_change_state(p, ti, TASK_STATE_RUNNABLE)
                          ELSE p
                 IN [w EXCEPT !.tasks[ti].stopped = FALSE]
            ELSE p

\* and resuming a vfork-suspended task
action_terminate_no_vfork(k, ti, signum) ==
    IF ti = k.curr
    THEN terminate_process(enable_preemption(k), 0, signum)
    ELSE LET p == add_pending_sig(k, ti, signum)
             w == IF /\ p.tasks[ti].state = TASK_STATE_SLEEPING
                     /\ p.tasks[ti].wobj # WOBJ_KMUTEX
                     /\ p.tasks[ti].wobj # WOBJ_SEM
                  THEN task_change_state(p, ti, TASK_STATE_RUNNABLE)
                  ELSE p
         IN [w EXCEPT !.tasks[ti].stopped = FALSE]

action_terminate(k, ti, signum) ==
    IF is_preemption_enabled(k) \/ is_kernel_thread(k, ti) THEN panic(k)
    ELSE IF ti = k.curr
    THEN LET e == enable_preemption(k)
         IN IF is_preemption_enabled(e) THEN terminate_process(e, 0, signum) ELSE panic(e)
    ELSE LET p == add_pending_sig(k, ti, signum)
         IN IF ~p.tasks[ti].vfork_stopped
            THEN LET w == IF /\ p.tasks[ti].state = TASK_STATE_SLEEPING
                             /\ p.tasks[ti].wobj # WOBJ_KMUTEX
                             /\ p.tasks[ti].wobj # WOBJ_SEM
                          THEN task_change_state(p, ti, TASK_STATE_RUNNABLE)
                          ELSE p
                 IN [w EXCEPT !.tasks[ti].stopped = FALSE]
            ELSE p

action_ignore(k, ti, signum) ==
    IF ti = InitTid THEN printk_warning(k, ti, signum) ELSE k

\* Faulty variant of action_stop: the stopped caller keeps the CPU
action_stop_no_yield(k, ti, signum) ==
    LET t == trace_signal_delivered(k, ti, signum)
        s == [t EXCEPT !.tasks[ti].stopped = TRUE,
                       !.tasks[ti].wstatus = STOPCODE(signum)]
    IN wake_up_tasks_waiting_on(s, ti, "task_stopped")

action_stop(k, ti, signum) ==
    LET t == trace_signal_delivered(k, ti, signum)
        s == [t EXCEPT !.tasks[ti].stopped = TRUE,
                       !.tasks[ti].wstatus = STOPCODE(signum)]
        w == wake_up_tasks_waiting_on(s, ti, "task_stopped")
    IN IF is_kernel_thread(k, ti) THEN panic(k)
       ELSE IF ti = w.curr THEN kernel_yield_preempt_disabled(w) ELSE w

\* Faulty variant of action_continue: the waiters are not woken
action_continue_no_wake(k, ti, signum) ==
    IF k.tasks[ti].vfork_stopped
    THEN k
    ELSE LET t == trace_signal_delivered(k, ti, signum)
         IN [t EXCEPT !.tasks[ti].stopped = FALSE,
                      !.tasks[ti].wstatus = CONTINUED]

action_continue(k, ti, signum) ==
    IF is_kernel_thread(k, ti) THEN panic(k)
    ELSE IF k.tasks[ti].vfork_stopped
    THEN k
    ELSE LET t == trace_signal_delivered(k, ti, signum)
             s == [t EXCEPT !.tasks[ti].stopped = FALSE,
                            !.tasks[ti].wstatus = CONTINUED]
         IN wake_up_tasks_waiting_on(s, ti, "task_continued")

\* signal_default_actions[signum]; "NULL" where the table has no entry
signal_default_actions(signum) ==
    CASE signum \in {SIGHUP, SIGINT, SIGQUIT, SIGILL, SIGABRT, SIGFPE, SIGKILL,
                     SIGSEGV, SIGPIPE, SIGALRM, SIGTERM, SIGUSR1, SIGUSR2,
                     SIGBUS, SIGPOLL, SIGPROF, SIGSYS, SIGTRAP,
                     SIGVTALRM, SIGXCPU, SIGXFSZ} -> "action_terminate"
      [] signum \in {SIGCHLD, SIGURG} -> "action_ignore"
      [] signum = SIGCONT -> "action_continue"
      [] signum \in {SIGSTOP, SIGTSTP, SIGTTIN, SIGTTOU} -> "action_stop"
      [] OTHER -> "NULL"

\* The call through the action_type pointer
action_func_call(k, action_func, ti, signum) ==
    CASE action_func = "action_terminate" -> action_terminate(k, ti, signum)
      [] action_func = "action_ignore" -> action_ignore(k, ti, signum)
      [] action_func = "action_stop" -> action_stop(k, ti, signum)
      [] action_func = "action_continue" -> action_continue(k, ti, signum)

\* Faulty variant of do_send_signal: SIG_IGN is treated as SIG_DFL
do_send_signal_no_ign(k, ti, signum) ==
    IF signum = 0
    THEN k
    ELSE LET h == k.procs[k.tasks[ti].pid].sa_handlers[signum - 1]
         IN IF h \notin {SIG_DFL, SIG_IGN}
            THEN k
            ELSE LET action_func ==
                         IF signal_default_actions(signum) # "NULL"
                         THEN signal_default_actions(signum)
                         ELSE "action_terminate"
                 IN action_func_call(k, action_func, ti, signum)

do_send_signal(k, ti, signum) ==
    IF ~(0 <= signum /\ signum < _NSIG) THEN panic(k)
    ELSE IF signum = 0
    THEN k
    ELSE LET h == k.procs[k.tasks[ti].pid].sa_handlers[signum - 1]
         IN IF h = SIG_IGN
            THEN action_ignore(k, ti, signum)
            ELSE IF h # SIG_DFL
                 THEN k
                 ELSE LET action_func ==
                              IF signal_default_actions(signum) # "NULL"
                              THEN signal_default_actions(signum)
                              ELSE "action_terminate"
                      IN action_func_call(k, action_func, ti, signum)

\* send_signal2(): k.rc is the value returned; when the action does not return
\* (k.pc is no longer "run") the code after the call is not run
\* Faulty variants of send_signal2: kernel threads are not rejected,
send_signal2_no_kthread_check(k0, pid, tid, signum, whole_process) ==
    LET k == disable_preemption(k0)
        ti == get_task(k, tid)
        err_end(e) == [enable_preemption(e) EXCEPT !.rc = -ESRCH]
        end(e) == [enable_preemption(e) EXCEPT !.rc = 0]
    IN IF ti = 0 THEN err_end(k)
       ELSE IF whole_process /\ k.tasks[ti].pid # tid THEN err_end(k)
       ELSE IF k.tasks[ti].pid # pid THEN err_end(k)
       ELSE IF signum = 0 THEN end(k)
       ELSE IF k.tasks[ti].state = TASK_STATE_ZOMBIE THEN end(k)
       ELSE LET d == do_send_signal(k, ti, signum)
            IN IF d.pc = "run" THEN end(d) ELSE d

\* and signal 0 leaves through the error exit
send_signal2_zero_err(k0, pid, tid, signum, whole_process) ==
    LET k == disable_preemption(k0)
        ti == get_task(k, tid)
        err_end(e) == [enable_preemption(e) EXCEPT !.rc = -ESRCH]
        end(e) == [enable_preemption(e) EXCEPT !.rc = 0]
    IN IF ti = 0 THEN err_end(k)
       ELSE IF is_kernel_thread(k, ti) THEN err_end(k)
       ELSE IF whole_process /\ k.tasks[ti].pid # tid THEN err_end(k)
       ELSE IF k.tasks[ti].pid # pid THEN err_end(k)
       ELSE IF signum = 0 THEN err_end(k)
       ELSE IF k.tasks[ti].state = TASK_STATE_ZOMBIE THEN end(k)
       ELSE LET d == do_send_signal(k, ti, signum)
            IN IF d.pc = "run" THEN end(d) ELSE d

\* and a ZOMBIE target is not told apart from a live one
send_signal2_no_zombie_check(k0, pid, tid, signum, whole_process) ==
    LET k == disable_preemption(k0)
        ti == get_task(k, tid)
        err_end(e) == [enable_preemption(e) EXCEPT !.rc = -ESRCH]
        end(e) == [enable_preemption(e) EXCEPT !.rc = 0]
    IN IF ti = 0 THEN err_end(k)
       ELSE IF is_kernel_thread(k, ti) THEN err_end(k)
       ELSE IF whole_process /\ k.tasks[ti].pid # tid THEN err_end(k)
       ELSE IF k.tasks[ti].pid # pid THEN err_end(k)
       ELSE IF signum = 0 THEN end(k)
       ELSE LET d == do_send_signal(k, ti, signum)
            IN IF d.pc = "run" THEN end(d) ELSE d

send_signal2(k0, pid, tid, signum, whole_process) ==
    LET k == disable_preemption(k0)
        ti == get_task(k, tid)
        err_end(e) == [enable_preemption(e) EXCEPT !.rc = -ESRCH]
        end(e) == [enable_preemption(e) EXCEPT !.rc = 0]
    IN IF ti = 0 THEN err_end(k)
       ELSE IF is_kernel_thread(k, ti) THEN err_end(k)
       ELSE IF whole_process /\ k.tasks[ti].pid # tid THEN err_end(k)
       ELSE IF k.tasks[ti].pid # pid THEN err_end(k)
       ELSE IF signum = 0 THEN end(k)
       ELSE IF k.tasks[ti].state = TASK_STATE_ZOMBIE THEN end(k)
       ELSE LET d == do_send_signal(k, ti, signum)
            IN IF d.pc = "run" THEN end(d) ELSE d

----------------------------------------------------------------------------
\* The signal syscalls

\* sa_flags bits
SA_FLAGS == {"SA_NOCLDSTOP", "SA_NOCLDWAIT", "SA_SIGINFO", "SA_ONSTACK",
             "SA_RESTART", "SA_NODEFER", "SA_RESETHAND"}

\* sizeof(sa_mask), in bytes
SizeofSaMask == K_SIGACTION_MASK_WORDS * (NBITS \div 8)

\* A user pointer to a struct k_sigaction: ptr is "NULL", "FAULT" (the copy
\* faults) or "OK" (the copy yields handler and sa_flags)
IsNull(p) == p.ptr = "NULL"
IsFault(p) == p.ptr = "FAULT"

\* What sys_rt_sigaction stores at user_oldact
NoOut == [stored |-> FALSE, handler |-> SIG_DFL, sa_flags |-> {}, sa_mask |-> EmptyMask]

\* Faulty variant of sigaction_int: SA_ONSTACK is let through
sigaction_int_onstack(k, signum, user_act) ==
    IF IsFault(user_act) THEN [k EXCEPT !.rc = -EFAULT]
    ELSE IF "SA_NOCLDSTOP" \in user_act.sa_flags THEN [k EXCEPT !.rc = -EINVAL]
    ELSE IF "SA_NOCLDWAIT" \in user_act.sa_flags THEN [k EXCEPT !.rc = -EINVAL]
    ELSE IF "SA_SIGINFO" \in user_act.sa_flags THEN [k EXCEPT !.rc = -EINVAL]
    ELSE [k EXCEPT !.procs[k.tasks[k.curr].pid].sa_handlers[signum - 1] = user_act.handler,
                   !.rc = 0]

\* sigaction_int(): k.rc is the value returned
sigaction_int(k, signum, user_act) ==
    IF IsFault(user_act) THEN [k EXCEPT !.rc = -EFAULT]
    ELSE IF "SA_NOCLDSTOP" \in user_act.sa_flags THEN [k EXCEPT !.rc = -EINVAL]
    ELSE IF "SA_NOCLDWAIT" \in user_act.sa_flags THEN [k EXCEPT !.rc = -EINVAL]
    ELSE IF "SA_SIGINFO" \in user_act.sa_flags THEN [k EXCEPT !.rc = -EINVAL]
    ELSE IF "SA_ONSTACK" \in user_act.sa_flags THEN [k EXCEPT !.rc = -EINVAL]
    ELSE [k EXCEPT !.procs[k.tasks[k.curr].pid].sa_handlers[signum - 1] = user_act.handler,
                   !.rc = 0]

\* Faulty variant of sys_rt_sigaction: SIGKILL and SIGSTOP are not rejected
sys_rt_sigaction_any_signal(k0, signum, user_act, user_oldact, sigsetsize) ==
    IF ~(1 <= signum /\ signum < _NSIG) \/ sigsetsize # SizeofSaMask
    THEN [k |-> [k0 EXCEPT !.rc = -EINVAL], out |-> NoOut]
    ELSE LET d == disable_preemption(k0)
             pi == d.procs[d.tasks[d.curr].pid]
             oldact == [stored |-> TRUE,
                        handler |-> pi.sa_handlers[signum - 1],
                        sa_flags |-> {},
                        sa_mask |-> pi.sa_mask]
             a == IF ~IsNull(user_act)
                  THEN sigaction_int(d, signum, user_act)
                  ELSE [d EXCEPT !.rc = 0]
             e == enable_preemption(a)
         IN IF e.rc = 0 /\ user_oldact # "NULL"
            THEN IF user_oldact = "FAULT"
                 THEN [k |-> [e EXCEPT !.rc = -EFAULT], out |-> NoOut]
                 ELSE [k |-> e, out |-> oldact]
            ELSE [k |-> e, out |-> NoOut]

\* sys_rt_sigaction(): the result is the kernel state and what copy_to_user
\* stored at user_oldact (NoOut when nothing was stored)
sys_rt_sigaction(k0, signum, user_act, user_oldact, sigsetsize) ==
    IF ~(1 <= signum /\ signum < _NSIG)
    THEN [k |-> [k0 EXCEPT !.rc = -EINVAL], out |-> NoOut]
    ELSE IF signum = SIGKILL \/ signum = SIGSTOP
    THEN [k |-> [k0 EXCEPT !.rc = -EINVAL], out |-> NoOut]
    ELSE IF sigsetsize # SizeofSaMask
    THEN [k |-> [k0 EXCEPT !.rc = -EINVAL], out |-> NoOut]
    ELSE LET d == disable_preemption(k0)
             pi == d.procs[d.tasks[d.curr].pid]
             oldact == [stored |-> TRUE,
                        handler |-> pi.sa_handlers[signum - 1],
                        sa_flags |-> {},
                        sa_mask |-> pi.sa_mask]
             a == IF ~IsNull(user_act)
                  THEN sigaction_int(d, signum, user_act)
                  ELSE [d EXCEPT !.rc = 0]
             e == enable_preemption(a)
         IN IF e.rc = 0 /\ user_oldact # "NULL"
            THEN IF user_oldact = "FAULT"
                 THEN [k |-> [e EXCEPT !.rc = -EFAULT], out |-> NoOut]
                 ELSE [k |-> e, out |-> oldact]
            ELSE [k |-> e, out |-> NoOut]

\* sys_rt_sigaction() and send_signal2() statement by statement, for the
\* specification in which other tasks run between the statements. k.pc tells
\* the statement that is next.

\* The argument checks of sys_rt_sigaction
sys_rt_sigaction_checks(k, signum, sigsetsize) ==
    IF ~(1 <= signum /\ signum < _NSIG) THEN [k EXCEPT !.rc = -EINVAL]
    ELSE IF signum = SIGKILL \/ signum = SIGSTOP THEN [k EXCEPT !.rc = -EINVAL]
    ELSE IF sigsetsize # SizeofSaMask THEN [k EXCEPT !.rc = -EINVAL]
    ELSE [k EXCEPT !.rc = 0, !.pc = "sa_gate"]

\* Faulty variant of sys_rt_sigaction_gate: the gate is not taken
sys_rt_sigaction_gate_open(k) == [k EXCEPT !.pc = "sa_read"]

\* disable_preemption()
sys_rt_sigaction_gate(k) == [disable_preemption(k) EXCEPT !.pc = "sa_read"]

\* if (user_oldact != NULL) oldact = ...: the value of the local oldact
sys_rt_sigaction_read_old(k, signum, user_oldact, oldact) ==
    IF user_oldact # "NULL"
    THEN [stored |-> TRUE,
          handler |-> k.procs[k.tasks[k.curr].pid].sa_handlers[signum - 1],
          sa_flags |-> {},
          sa_mask |-> k.procs[k.tasks[k.curr].pid].sa_mask]
    ELSE oldact

\* if (user_act != NULL) rc = sigaction_int(signum, user_act)
sys_rt_sigaction_write_new(k, signum, user_act) ==
    IF ~IsNull(user_act)
    THEN [sigaction_int(k, signum, user_act) EXCEPT !.pc = "sa_ungate"]
    ELSE [k EXCEPT !.pc = "sa_ungate"]

\* enable_preemption()
sys_rt_sigaction_ungate(k) == [enable_preemption(k) EXCEPT !.pc = "sa_copy"]

\* if (!rc && user_oldact != NULL) copy_to_user(...); return rc
sys_rt_sigaction_copy_out(k, user_oldact, oldact) ==
    IF k.rc = 0 /\ user_oldact # "NULL"
    THEN IF user_oldact = "FAULT"
         THEN [k |-> [k EXCEPT !.rc = -EFAULT, !.pc = "run"], out |-> NoOut]
         ELSE [k |-> [k EXCEPT !.pc = "run"], out |-> oldact]
    ELSE [k |-> [k EXCEPT !.pc = "run"], out |-> NoOut]

\* int rc = -ESRCH; disable_preemption()
send_signal2_gate(k) == [disable_preemption(k) EXCEPT !.rc = -ESRCH, !.pc = "ss_body"]

\* From get_task(tid) to do_send_signal(ti, signum) and rc = 0
send_signal2_body(k, pid, tid, signum, whole_process) ==
    LET ti == get_task(k, tid)
        err_end(e) == [e EXCEPT !.pc = "ss_ungate"]
        end(e) == [e EXCEPT !.rc = 0, !.pc = "ss_ungate"]
    IN IF ti = 0 THEN err_end(k)
       ELSE IF is_kernel_thread(k, ti) THEN err_end(k)
       ELSE IF whole_process /\ k.tasks[ti].pid # tid THEN err_end(k)
       ELSE IF k.tasks[ti].pid # pid THEN err_end(k)
       ELSE IF signum = 0 THEN end(k)
       ELSE IF k.tasks[ti].state = TASK_STATE_ZOMBIE THEN end(k)
       ELSE LET d == do_send_signal([k EXCEPT !.pc = "run"], ti, signum)
            IN IF d.pc = "run" THEN end(d) ELSE d

\* err_end: enable_preemption(); return rc
send_signal2_ungate(k) == [enable_preemption(k) EXCEPT !.pc = "run"]

\* The values of `how'
SIG_BLOCK == 0
SIG_UNBLOCK == 1
SIG_SETMASK == 2

\* sizeof(ulong), in bytes, and the length of the user's sigset_t buffer, in words
SizeofUlong == NBITS \div 8
UserSetWords == K_SIGACTION_MASK_WORDS + 1

\* copy_to_user(user_oldset, pi->sa_mask, sigsetsize), followed by the zero
\* padding when sigsetsize > sizeof(pi->sa_mask): the buffer afterwards
sigprocmask_copy_out(buf, sa_mask, sigsetsize) ==
    [i \in DOMAIN buf |->
        IF (i + 1) * SizeofUlong > sigsetsize THEN buf[i]
        ELSE IF i < K_SIGACTION_MASK_WORDS THEN sa_mask[i]
        ELSE {}]

\* Faulty variant of the loop: SIG_SETMASK adds the word instead of storing it
RECURSIVE sigprocmask_apply_set_adds(_, _, _, _, _)
sigprocmask_apply_set_adds(k, pid, how, user_set, i) ==
    IF i >= K_SIGACTION_MASK_WORDS THEN [k EXCEPT !.rc = 0]
    ELSE IF i >= user_set.readable THEN [k EXCEPT !.rc = -EFAULT]
    ELSE LET w == user_set.words[i]
         IN IF how = SIG_BLOCK \/ how = SIG_SETMASK
            THEN sigprocmask_apply_set_adds([k EXCEPT !.procs[pid].sa_mask[i] = @ \cup w],
                                            pid, how, user_set, i + 1)
            ELSE IF how = SIG_UNBLOCK
            THEN sigprocmask_apply_set_adds([k EXCEPT !.procs[pid].sa_mask[i] = @ \ w],
                                            pid, how, user_set, i + 1)
            ELSE [k EXCEPT !.rc = -EINVAL]

\* Faulty variant of the loop: an unknown `how' is taken for SIG_SETMASK
RECURSIVE sigprocmask_apply_any_how(_, _, _, _, _)
sigprocmask_apply_any_how(k, pid, how, user_set, i) ==
    IF i >= K_SIGACTION_MASK_WORDS THEN [k EXCEPT !.rc = 0]
    ELSE IF i >= user_set.readable THEN [k EXCEPT !.rc = -EFAULT]
    ELSE LET w == user_set.words[i]
         IN IF how = SIG_BLOCK
            THEN sigprocmask_apply_any_how([k EXCEPT !.procs[pid].sa_mask[i] = @ \cup w],
                                           pid, how, user_set, i + 1)
            ELSE IF how = SIG_UNBLOCK
            THEN sigprocmask_apply_any_how([k EXCEPT !.procs[pid].sa_mask[i] = @ \ w],
                                           pid, how, user_set, i + 1)
            ELSE sigprocmask_apply_any_how([k EXCEPT !.procs[pid].sa_mask[i] = w],
                                           pid, how, user_set, i + 1)

\* The loop over the words of user_set, from word i on: copy_from_user of a
\* word faults when the word is not readable
RECURSIVE sigprocmask_apply(_, _, _, _, _)
sigprocmask_apply(k, pid, how, user_set, i) ==
    IF i >= K_SIGACTION_MASK_WORDS THEN [k EXCEPT !.rc = 0]
    ELSE IF i >= user_set.readable THEN [k EXCEPT !.rc = -EFAULT]
    ELSE LET w == user_set.words[i]
         IN IF how = SIG_BLOCK
            THEN sigprocmask_apply([k EXCEPT !.procs[pid].sa_mask[i] = @ \cup w],
                                   pid, how, user_set, i + 1)
            ELSE IF how = SIG_UNBLOCK
            THEN sigprocmask_apply([k EXCEPT !.procs[pid].sa_mask[i] = @ \ w],
                                   pid, how, user_set, i + 1)
            ELSE IF how = SIG_SETMASK
            THEN sigprocmask_apply([k EXCEPT !.procs[pid].sa_mask[i] = w],
                                   pid, how, user_set, i + 1)
            ELSE [k EXCEPT !.rc = -EINVAL]

\* sys_rt_sigprocmask(): user_oldset is "NULL", "FAULT" or "OK"
sys_rt_sigprocmask(k, how, user_set, user_oldset, sigsetsize) ==
    LET pid == k.tasks[k.curr].pid
        q == IF user_oldset = "OK"
             THEN [k EXCEPT !.procs[pid].user_oldset =
                       sigprocmask_copy_out(@, k.procs[pid].sa_mask, sigsetsize)]
             ELSE k
    IN IF user_oldset = "FAULT" THEN [k EXCEPT !.rc = -EFAULT]
       ELSE IF user_set.ptr # "NULL" THEN sigprocmask_apply(q, pid, how, user_set, 0)
       ELSE [q EXCEPT !.rc = 0]

----------------------------------------------------------------------------
\* switch_to_task(ti), one operator per stretch of the function

\* task_change_state_idempotent(ti, new_state)
task_change_state_idempotent(k, ti, new_state) ==
    IF k.tasks[ti].state # new_state THEN task_change_state(k, ti, new_state) ELSE k

\* The assertions at the entry of switch_to_task
switch_to_task_asserts(k, ti) ==
    /\ k.curr \in DOMAIN k.tasks
    /\ ti # k.curr =>
          /\ k.tasks[k.curr].state # TASK_STATE_RUNNING
          /\ k.tasks[ti].state = TASK_STATE_RUNNABLE
    /\ ~is_preemption_enabled(k)

\* Up to the check of the incoming task: the target becomes RUNNING
switch_to_task_begin(k, ti) ==
    [task_change_state_idempotent(k, ti, TASK_STATE_RUNNING) EXCEPT !.pc = "sw_user"]

\* if (!is_kernel_thread(ti)) { ... process_signals(ti, sig_in_usermode, state) ... }
switch_to_task_user(k, ti) ==
    LET s == IF /\ ~is_kernel_thread(k, ti)
                /\ ~k.tasks[ti].running_in_kernel
                /\ ~k.tasks[ti].spp
             THEN process_signals(k)
             ELSE k
    IN IF s.pc = "sw_user" THEN [s EXCEPT !.pc = "sw_irq"] ELSE s

\* Faulty variant of switch_to_task_irq: the interrupts are left as they are
switch_to_task_irq_on(k, ti) == [k EXCEPT !.pc = "sw_preempt"]

\* disable_interrupts_forced(); switch_to_task_pop_nested_interrupts()
switch_to_task_irq(k, ti) == [k EXCEPT !.irq = FALSE, !.pc = "sw_preempt"]

\* enable_preemption_nosched(); ASSERT(is_preemption_enabled())
switch_to_task_preempt(k, ti) ==
    LET e == enable_preemption(k)
    IN IF is_preemption_enabled(e) THEN [e EXCEPT !.pc = "sw_stack"] ELSE panic(e)

\* task_info_reset_kernel_stack(ti) or adjust_nested_interrupts_for_task_in_kernel(ti)
switch_to_task_stack(k, ti) == [k EXCEPT !.pc = "sw_curr"]

\* set_curr_task(ti)
switch_to_task_set_curr(k, ti) == [k EXCEPT !.curr = ti, !.pc = "sw_timer"]

\* ti->timer_ready = false
switch_to_task_timer(k, ti) ==
    [k EXCEPT !.tasks[ti].timer_ready = FALSE, !.pc = "sw_ctx"]

\* context_switch(state): the target resumes with its saved status, interrupts on
context_switch(k, ti) == [k EXCEPT !.irq = TRUE, !.pc = "run"]

\* The non-interruptible tail, from disable_interrupts_forced() to context_switch()
switch_to_task_tail(k, ti) ==
    context_switch(
       switch_to_task_timer(
          switch_to_task_set_curr(
             switch_to_task_stack(
                switch_to_task_preempt(
                   switch_to_task_irq(k, ti), ti), ti), ti), ti), ti)

\* switch_to_task(ti), when nothing is to be observed in between
switch_to_task(k, ti) ==
    LET u == switch_to_task_user(switch_to_task_begin(k, ti), ti)
    IN IF u.pc = "sw_irq" THEN switch_to_task_tail(u, ti) ELSE u

----------------------------------------------------------------------------
\* kthread_create2()

\* create_new_kernel_tid(): the first free thread id, -1 when there is none
create_new_kernel_tid(k) ==
    LET free == {t \in (KthreadTid + 1)..MaxTid : t \notin DOMAIN k.tasks}
    IN IF free = {} THEN -1 ELSE CHOOSE t \in free : \A u \in free : t <= u

\* allocate_new_thread(kernel_process->pi, tid, ...): a task that is in no list
\* and has no state yet
allocate_new_thread(pid, tid) ==
    [pid |-> pid, state |-> TASK_STATE_INVALID, wobj |-> WOBJ_NONE,
     stopped |-> FALSE, vfork_stopped |-> FALSE, wstatus |-> [code |-> "none", sig |-> 0],
     pending_signums |-> EmptyMask,
     running_in_kernel |-> FALSE, spp |-> FALSE, timer_ready |-> FALSE]

\* add_task(ti): the task is in the scheduler's list
add_task(k, tid, ti) == [k EXCEPT !.tasks = tid :> ti @@ @]

\* Faulty variant of kthread_init: the state is left as allocated
kthread_init_no_state(ti) ==
    [ti EXCEPT !.running_in_kernel = TRUE, !.spp = TRUE]

\* From ti->kthread_name = name to ret = ti->tid: the thread is RUNNABLE, in
\* kernel mode, with entry, argument and kthread_exit in its saved registers
kthread_init(ti) ==
    [ti EXCEPT !.state = TASK_STATE_RUNNABLE, !.running_in_kernel = TRUE, !.spp = TRUE]

\* kthread_create2(): k.rc is the tid or the error; alloc_ok tells whether
\* allocate_new_thread() finds the memory
kthread_create2(k0, alloc_ok) ==
    LET k == disable_preemption(k0)
        tid == create_new_kernel_tid(k)
    IN IF tid < 0 THEN [k EXCEPT !.rc = -EAGAIN]
       ELSE IF ~alloc_ok THEN [k EXCEPT !.rc = -ENOMEM]
       ELSE IF ~is_kernel_thread(add_task(k, tid, allocate_new_thread(KernelPid, tid)), tid)
       THEN panic(k)
       ELSE LET ti == kthread_init(allocate_new_thread(KernelPid, tid))
            IN [enable_preemption(add_task(k, tid, ti)) EXCEPT !.rc = tid]

\* kthread_exit(): the entry function of a kernel thread returned
kthread_exit(k) ==
    [k EXCEPT !.tasks[k.curr].state = TASK_STATE_ZOMBIE,
              !.preempt = 1,
              !.pc = "sched"]

----------------------------------------------------------------------------
\* The state machine

\* last.returned: the operation returned to its caller, with the value last.rc
\* act, set, old, size and how are the arguments of the signal syscalls
NoAct == [ptr |-> "NULL", handler |-> SIG_DFL, sa_flags |-> {}]
NoSet == [ptr |-> "NULL", words |-> EmptyMask, readable |-> 0]
NoOp == [op |-> "none", pid |-> 0, tid |-> 0, signum |-> 0,
         returned |-> FALSE, rc |-> 0, out |-> NoOut,
         act |-> NoAct, set |-> NoSet, old |-> "NULL", size |-> 0, how |-> 0,
         whole_process |-> FALSE, interleaved |-> {}]

NewTask(pid, st, in_kernel) ==
    [pid |-> pid, state |-> st, wobj |-> WOBJ_NONE,
     stopped |-> FALSE, vfork_stopped |-> FALSE, wstatus |-> NoStatus,
     pending_signums |-> EmptyMask,
     running_in_kernel |-> in_kernel, spp |-> in_kernel, timer_ready |-> FALSE]

\* user_oldset is the sigset_t buffer in the process's memory that
\* sys_rt_sigprocmask fills, UserSetWords words long
NewProc == [sa_handlers |-> [i \in 0..(_NSIG - 1) |-> SIG_DFL], sa_mask |-> EmptyMask,
            user_oldset |-> [i \in 0..(UserSetWords - 1) |-> {}]]

\* After boot: init runs in user mode, a second user process and a kernel
\* thread are runnable
Init ==
    /\ tasks = [t \in Tids |->
                  IF t = InitTid THEN NewTask(InitTid, TASK_STATE_RUNNING, FALSE)
                  ELSE IF t = UserTid THEN NewTask(UserTid, TASK_STATE_RUNNABLE, FALSE)
                  ELSE NewTask(KernelPid, TASK_STATE_RUNNABLE, TRUE)]
    /\ procs = [p \in Pids |-> NewProc]
    /\ curr = InitTid
    /\ preempt_disable_count = 0
    /\ interrupts_enabled = TRUE
    /\ pc = "run"
    /\ sw_ti = 0
    /\ events = <<>>
    /\ last = NoOp

\* The variables take the values of the kernel state k
Commit(k) ==
    /\ tasks' = k.tasks
    /\ procs' = k.procs
    /\ curr' = k.curr
    /\ preempt_disable_count' = k.preempt
    /\ interrupts_enabled' = k.irq
    /\ pc' = k.pc
    /\ events' = k.events

\* The current task, or an interrupt handler on its behalf, sends a signal
Send(pid, tid, signum, whole_process) ==
    /\ pc = "run"
    /\ LET k == send_signal2(K, pid, tid, signum, whole_process)
       IN /\ Commit(k)
          /\ last' = [NoOp EXCEPT !.op = "send", !.pid = pid, !.tid = tid,
                                  !.signum = signum, !.returned = (k.pc = "run"),
                                  !.rc = k.rc]
    /\ UNCHANGED sw_ti

\* The current user task installs or queries a disposition
Sigaction(signum, user_act, user_oldact, sigsetsize) ==
    /\ pc = "run"
    /\ ~is_kernel_thread(K, curr)
    /\ LET r == sys_rt_sigaction(K, signum, user_act, user_oldact, sigsetsize)
       IN /\ Commit(r.k)
          /\ last' = [NoOp EXCEPT !.op = "sigaction", !.pid = tasks[curr].pid,
                                  !.tid = curr, !.signum = signum, !.returned = TRUE,
                                  !.rc = r.k.rc, !.out = r.out, !.act = user_act,
                                  !.old = user_oldact, !.size = sigsetsize]
    /\ UNCHANGED sw_ti

\* The current user task queries or updates the blocked mask of its process
Sigprocmask(how, user_set, user_oldset, sigsetsize) ==
    /\ pc = "run"
    /\ ~is_kernel_thread(K, curr)
    /\ LET k == sys_rt_sigprocmask(K, how, user_set, user_oldset, sigsetsize)
       IN /\ Commit(k)
          /\ last' = [NoOp EXCEPT !.op = "sigprocmask", !.pid = tasks[curr].pid,
                                  !.tid = curr, !.returned = TRUE, !.rc = k.rc,
                                  !.how = how, !.set = user_set, !.old = user_oldset,
                                  !.size = sigsetsize]
    /\ UNCHANGED sw_ti

\* The state in the middle of a system call: the events so far, and rc as the
\* call's frame in last holds it
KF == [K EXCEPT !.events = events, !.rc = last.rc]

\* sys_rt_sigaction() by the current user task, statement by statement: the
\* arguments and the locals oldact and rc are in last
SaChecks(signum, user_act, user_oldact, sigsetsize) ==
    /\ pc = "run"
    /\ ~is_kernel_thread(K, curr)
    /\ LET k == sys_rt_sigaction_checks(K, signum, sigsetsize)
       IN /\ Commit(k)
          /\ last' = [NoOp EXCEPT !.op = "sigaction", !.pid = tasks[curr].pid,
                                  !.tid = curr, !.signum = signum,
                                  !.returned = (k.pc = "run"),
                                  !.rc = k.rc, !.act = user_act,
                                  !.old = user_oldact, !.size = sigsetsize]
    /\ UNCHANGED sw_ti

SaGate ==
    /\ pc = "sa_gate"
    /\ Commit(sys_rt_sigaction_gate(KF))
    /\ UNCHANGED <<last, sw_ti>>

SaReadOld ==
    /\ pc = "sa_read"
    /\ Commit([KF EXCEPT !.pc = "sa_write"])
    /\ last' = [last EXCEPT
                  !.out = sys_rt_sigaction_read_old(KF, last.signum, last.old, last.out)]
    /\ UNCHANGED sw_ti

SaWriteNew ==
    /\ pc = "sa_write"
    /\ LET k == sys_rt_sigaction_write_new(KF, last.signum, last.act)
       IN /\ Commit(k)
          /\ last' = [last EXCEPT !.rc = k.rc]
    /\ UNCHANGED sw_ti

SaUngate ==
    /\ pc = "sa_ungate"
    /\ Commit(sys_rt_sigaction_ungate(KF))
    /\ UNCHANGED <<last, sw_ti>>

SaCopyOut ==
    /\ pc = "sa_copy"
    /\ LET r == sys_rt_sigaction_copy_out(KF, last.old, last.out)
       IN /\ Commit(r.k)
          /\ last' = [last EXCEPT !.returned = TRUE, !.rc = r.k.rc, !.out = r.out]
    /\ UNCHANGED sw_ti

\* send_signal2() by the current task, statement by statement
SsGate(pid, tid, signum, whole_process) ==
    /\ pc = "run"
    /\ LET k == send_signal2_gate(K)
       IN /\ Commit(k)
          /\ last' = [NoOp EXCEPT !.op = "send", !.pid = pid, !.tid = tid,
                                  !.signum = signum, !.rc = k.rc,
                                  !.whole_process = whole_process]
    /\ UNCHANGED sw_ti

SsBody ==
    /\ pc = "ss_body"
    /\ LET k == send_signal2_body(KF, last.pid, last.tid, last.signum, last.whole_process)
       IN /\ Commit(k)
          /\ last' = [last EXCEPT !.rc = k.rc]
    /\ UNCHANGED sw_ti

SsUngate ==
    /\ pc = "ss_ungate"
    /\ Commit(send_signal2_ungate(KF))
    /\ last' = [last EXCEPT !.returned = TRUE]
    /\ UNCHANGED sw_ti

\* While the current task is between two statements of a system call and
\* preemption and interrupts are enabled, the timer tick lets another task run:
\* it sends a signal and the scheduler comes back to the first task
InterleavedSend(other, pid, tid, signum, whole_process) ==
    /\ pc \in {"sa_gate", "sa_read", "sa_write", "sa_ungate", "sa_copy",
               "ss_body", "ss_ungate"}
    /\ is_preemption_enabled(K)
    /\ interrupts_enabled
    /\ other # curr
    /\ tasks[other].state = TASK_STATE_RUNNABLE
    /\ ~tasks[other].stopped
    /\ LET there == [K EXCEPT !.curr = other,
                             !.tasks[curr].state = TASK_STATE_RUNNABLE,
                             !.tasks[other].state = TASK_STATE_RUNNING,
                             !.pc = "run"]
           sent == send_signal2(there, pid, tid, signum, whole_process)
           back == [sent EXCEPT !.curr = curr,
                                !.tasks[other].state = TASK_STATE_RUNNABLE,
                                !.tasks[curr].state = TASK_STATE_RUNNING,
                                !.pc = pc]
       IN /\ sent.pc = "run"
          /\ sent.tasks[other].state = TASK_STATE_RUNNING
          /\ sent.tasks[curr].state = TASK_STATE_RUNNABLE
          /\ ~sent.tasks[curr].stopped
          /\ Commit(back)
          /\ last' = [last EXCEPT !.interleaved = @ \cup {pc}]
    /\ UNCHANGED sw_ti

\* The kernel marks a signal of task ti as pending
AddPending(ti, signum) ==
    /\ pc = "run"
    /\ LET k == add_pending_sig(K, ti, signum)
       IN /\ Commit(k)
          /\ last' = [NoOp EXCEPT !.op = "add_pending", !.tid = ti, !.signum = signum,
                                  !.returned = (k.pc = "run")]
    /\ UNCHANGED sw_ti

\* The kernel clears a pending signal of task ti
DelPending(ti, signum) ==
    /\ pc = "run"
    /\ LET k == del_pending_sig(K, ti, signum)
       IN /\ Commit(k)
          /\ last' = [NoOp EXCEPT !.op = "del_pending", !.tid = ti, !.signum = signum,
                                  !.returned = (k.pc = "run")]
    /\ UNCHANGED sw_ti

\* The kernel asks whether a signal of task ti is pending: ASSERT(signum > 0),
\* then the answer, a bool, in rc
IsPending(ti, signum) ==
    /\ pc = "run"
    /\ LET k == IF ~(signum > 0) THEN panic(K) ELSE K
       IN /\ Commit(k)
          /\ last' = [NoOp EXCEPT !.op = "is_pending", !.tid = ti, !.signum = signum,
                                  !.returned = (k.pc = "run"),
                                  !.rc = IF k.pc = "run" /\ is_pending_sig(K, ti, signum)
                                         THEN 1 ELSE 0]
    /\ UNCHANGED sw_ti

\* The kernel asks for the first pending signal of task ti
FirstPending(ti) ==
    /\ pc = "run"
    /\ Commit(K)
    /\ last' = [NoOp EXCEPT !.op = "first_pending", !.tid = ti, !.returned = TRUE,
                            !.rc = get_first_pending_sig(K, ti)]
    /\ UNCHANGED sw_ti

\* The current task, in kernel mode, creates a kernel thread
KthreadCreate(alloc_ok) ==
    /\ pc = "run"
    /\ preempt_disable_count < MaxNesting
    /\ LET k == kthread_create2(K, alloc_ok)
       IN /\ Commit(k)
          /\ last' = [NoOp EXCEPT !.op = "kthread_create", !.pid = tasks[curr].pid,
                                  !.tid = curr, !.returned = (k.pc = "run"),
                                  !.rc = k.rc]
    /\ UNCHANGED sw_ti

\* A kernel thread made by kthread_create2 returns from its entry function
KthreadExit ==
    /\ pc = "run"
    /\ curr > KthreadTid
    /\ is_preemption_enabled(K)
    /\ Commit(kthread_exit(K))
    /\ last' = NoOp
    /\ UNCHANGED sw_ti

\* schedule() is entered (timer tick, yield or blocking wait): preemption is
\* disabled, the context of the current task is saved and its state is set.  A
\* task that resumed in kernel mode reaches user mode through the syscall exit
\* path, which delivers its pending signals: it is not interrupted in user mode
\* with a signal pending.
EnterScheduler(new_state, wobj, in_kernel) ==
    /\ pc = "run"
    /\ is_preemption_enabled(K)
    /\ tasks[curr].state = TASK_STATE_RUNNING
    /\ is_kernel_thread(K, curr) => in_kernel
    /\ new_state = TASK_STATE_SLEEPING => in_kernel
    /\ ~in_kernel => \/ ~tasks[curr].running_in_kernel
                      \/ get_first_pending_sig(K, curr) <= 0
    /\ (wobj # WOBJ_NONE) <=> (new_state = TASK_STATE_SLEEPING)
    /\ tasks' = [tasks EXCEPT ![curr].state = new_state,
                              ![curr].wobj = wobj,
                              ![curr].running_in_kernel = in_kernel,
                              ![curr].spp = in_kernel]
    /\ preempt_disable_count' = preempt_disable_count + 1
    /\ pc' = "sched"
    /\ events' = <<>>
    /\ last' = NoOp
    /\ UNCHANGED <<procs, curr, interrupts_enabled, sw_ti>>

\* A sleeping task is woken by what it waits for, possibly its wake-up timer
WakeUp(t, by_timer) ==
    /\ pc = "run"
    /\ tasks[t].state = TASK_STATE_SLEEPING
    /\ by_timer => tasks[t].wobj = WOBJ_KCOND
    /\ tasks' = [tasks EXCEPT ![t].state = TASK_STATE_RUNNABLE,
                              ![t].wobj = WOBJ_NONE,
                              ![t].timer_ready = by_timer]
    /\ events' = <<>>
    /\ last' = NoOp
    /\ UNCHANGED <<procs, curr, preempt_disable_count, interrupts_enabled, pc, sw_ti>>

\* vfork(): the parent is stopped until the child execs or exits
VforkSuspend ==
    /\ pc = "run"
    /\ ~is_kernel_thread(K, curr)
    /\ tasks[curr].state = TASK_STATE_RUNNING
    /\ tasks' = [tasks EXCEPT ![curr].state = TASK_STATE_RUNNABLE,
                              ![curr].stopped = TRUE,
                              ![curr].vfork_stopped = TRUE,
                              ![curr].running_in_kernel = TRUE,
                              ![curr].spp = TRUE]
    /\ preempt_disable_count' = preempt_disable_count + 1
    /\ pc' = "sched"
    /\ events' = <<>>
    /\ last' = NoOp
    /\ UNCHANGED <<procs, curr, interrupts_enabled, sw_ti>>

\* The vfork child has moved on: the parent may run again
VforkResume(t) ==
    /\ pc = "run"
    /\ tasks[t].vfork_stopped
    /\ tasks' = [tasks EXCEPT ![t].stopped = FALSE, ![t].vfork_stopped = FALSE]
    /\ events' = <<>>
    /\ last' = NoOp
    /\ UNCHANGED <<procs, curr, preempt_disable_count, interrupts_enabled, pc, sw_ti>>

\* The scheduler's choice: a runnable task that is not stopped, or the current
\* task again
Selectable(ti) ==
    /\ ~tasks[ti].stopped
    /\ \/ tasks[ti].state = TASK_STATE_RUNNABLE
       \/ ti = curr /\ tasks[ti].state = TASK_STATE_RUNNING

KE == [K EXCEPT !.events = events]

SwitchBegin(ti) ==
    /\ pc = "sched"
    /\ Selectable(ti)
    /\ switch_to_task_asserts(K, ti)
    /\ Commit(switch_to_task_begin(K, ti))
    /\ sw_ti' = ti
    /\ last' = [NoOp EXCEPT !.op = "switch", !.pid = tasks[ti].pid, !.tid = ti]

\* A whole switch_to_task(ti) as one step
SwitchToTask(ti) ==
    /\ pc = "sched"
    /\ Selectable(ti)
    /\ switch_to_task_asserts(K, ti)
    /\ Commit(switch_to_task(K, ti))
    /\ sw_ti' = 0
    /\ last' = [NoOp EXCEPT !.op = "switch", !.pid = tasks[ti].pid, !.tid = ti]

SwitchUser ==
    /\ pc = "sw_user"
    /\ LET k == switch_to_task_user(KE, sw_ti)
       IN /\ Commit(k)
          /\ sw_ti' = IF k.pc = "sched" THEN 0 ELSE sw_ti
    /\ UNCHANGED last

SwitchIrq ==
    /\ pc = "sw_irq"
    /\ Commit(switch_to_task_irq(KE, sw_ti))
    /\ UNCHANGED <<sw_ti, last>>

SwitchPreempt ==
    /\ pc = "sw_preempt"
    /\ Commit(switch_to_task_preempt(KE, sw_ti))
    /\ UNCHANGED <<sw_ti, last>>

SwitchStack ==
    /\ pc = "sw_stack"
    /\ Commit(switch_to_task_stack(KE, sw_ti))
    /\ UNCHANGED <<sw_ti, last>>

SwitchSetCurr ==
    /\ pc = "sw_curr"
    /\ Commit(switch_to_task_set_curr(KE, sw_ti))
    /\ UNCHANGED <<sw_ti, last>>

SwitchTimer ==
    /\ pc = "sw_timer"
    /\ Commit(switch_to_task_timer(KE, sw_ti))
    /\ UNCHANGED <<sw_ti, last>>

ContextSwitch ==
    /\ pc = "sw_ctx"
    /\ Commit(context_switch(KE, sw_ti))
    /\ sw_ti' = 0
    /\ UNCHANGED last

\* The inputs of the callers.  A send names a thread id and the process id the
\* caller believes it has; an install names a handler, with sa_flags clear
\* The arguments of send_signal2: every signal of SendSigs to every task with
\* its own pid (init is never stopped nor killed), one signal to each missing
\* tid, and the mismatching pid and the whole-process variants
SendSigsTo(tid) ==
    IF tid = InitTid THEN {0, SIGCHLD, 40}
    ELSE IF tid \in Tids THEN SendSigs ELSE {SIGSTOP}
PidOf(tid) == IF tid = KthreadTid THEN KernelPid ELSE tid
SendArgs ==
    {<<PidOf(tid), tid, signum, FALSE>> : tid \in 1..MaxTid, signum \in SendSigs}
    \cup {<<KernelPid, UserTid, signum, FALSE>> : signum \in {0, SIGSTOP}}
    \cup {<<UserTid, UserTid, 40, TRUE>>, <<InitTid, UserTid, 40, TRUE>>}
SigactionSigs == {SIGKILL, 40}
UserActs == [ptr : {"OK"}, handler : {SIG_DFL, SIG_IGN}, sa_flags : {{}}]
WaitObjs == {WOBJ_KCOND, WOBJ_KMUTEX, WOBJ_SEM}

\* Signal delivery: every default action, dispositions, vfork and the wait
\* kinds, with each switch_to_task() taken as one step
Next ==
    \/ \E a \in SendArgs :
          a[3] \in SendSigsTo(a[2]) /\ Send(a[1], a[2], a[3], a[4])
    \/ \E signum \in SigactionSigs, act \in UserActs :
          Sigaction(signum, act, "NULL", SizeofSaMask)
    \/ \E st \in {TASK_STATE_RUNNING, TASK_STATE_RUNNABLE} :
          EnterScheduler(st, WOBJ_NONE, TRUE)
    \/ \E w \in WaitObjs : curr = UserTid /\ EnterScheduler(TASK_STATE_SLEEPING, w, TRUE)
    \/ \E t \in Tids : WakeUp(t, FALSE)
    \/ curr = UserTid /\ VforkSuspend
    \/ \E t \in Tids : VforkResume(t)
    \/ \E ti \in Tids : SwitchToTask(ti)

Spec == Init /\ [][Next]_vars

\* Task switching: switch_to_task() step by step, with the terminating signals
NextSwitch ==
    \/ \E tid \in Tids, signum \in {SIGKILL, 40} : Send(tid, tid, signum, FALSE)
    \/ \E st \in {TASK_STATE_RUNNING, TASK_STATE_RUNNABLE}, ik \in BOOLEAN :
          EnterScheduler(st, WOBJ_NONE, ik)
    \/ EnterScheduler(TASK_STATE_SLEEPING, WOBJ_KCOND, TRUE)
    \/ \E t \in Tids, bt \in BOOLEAN : WakeUp(t, bt)
    \/ \E ti \in Tids : SwitchBegin(ti)
    \/ \E ti \in Tids : SwitchToTask(ti)
    \/ SwitchUser
    \/ SwitchIrq
    \/ SwitchPreempt
    \/ SwitchStack
    \/ SwitchSetCurr
    \/ SwitchTimer
    \/ ContextSwitch

SpecSwitch == Init /\ [][NextSwitch]_vars

\* The arguments of the signal syscalls.  TestBit(slot) is the bit a word of a
\* new mask may carry; a set pointer may be readable for its first words only
TestBit(slot) == IF slot = 0 THEN 0 ELSE NBITS - 1
SysHandlers == {SIG_DFL, SIG_IGN, UserHandler}
OkAct(h, fl) == [ptr |-> "OK", handler |-> h, sa_flags |-> fl]
FaultAct == [ptr |-> "FAULT", handler |-> SIG_DFL, sa_flags |-> {}]
SigactionArgs ==
    {<<signum, act, old, SizeofSaMask>> :
        signum \in {SIGKILL, SIGSTOP, 40},
        act \in {NoAct, FaultAct} \cup {OkAct(h, {}) : h \in SysHandlers},
        old \in {"NULL", "FAULT", "OK"}}
    \cup {<<40, OkAct(SIG_IGN, {f}), old, SizeofSaMask>> :
             f \in SA_FLAGS, old \in {"NULL", "OK"}}
    \cup {<<40, OkAct(UserHandler, {"SA_RESTART", "SA_SIGINFO"}), "NULL", SizeofSaMask>>}
    \cup {<<signum, OkAct(SIG_IGN, {}), "NULL", SizeofSaMask>> : signum \in {0, _NSIG}}
    \cup {<<40, OkAct(SIG_IGN, {}), "NULL", SizeofUlong>>}
SysMasks == {[slot \in 0..(K_SIGACTION_MASK_WORDS - 1) |->
                 IF slot \in on THEN {TestBit(slot)} ELSE {}] :
                on \in SUBSET (0..(K_SIGACTION_MASK_WORDS - 1))}
OkSet(m, n) == [ptr |-> "OK", words |-> m, readable |-> n]
SigprocmaskArgs ==
    {<<how, set, old, SizeofSaMask>> :
        how \in {SIG_BLOCK, SIG_UNBLOCK, SIG_SETMASK, SIG_SETMASK + 1},
        set \in {NoSet} \cup {OkSet(m, K_SIGACTION_MASK_WORDS) : m \in SysMasks},
        old \in {"NULL", "OK"}}
    \cup {<<how, OkSet(m, n), "NULL", SizeofSaMask>> :
             how \in {SIG_SETMASK, SIG_SETMASK + 1},
             m \in SysMasks, n \in 0..(K_SIGACTION_MASK_WORDS - 1)}
    \cup {<<SIG_BLOCK, OkSet(m, K_SIGACTION_MASK_WORDS), "FAULT", SizeofSaMask>> :
             m \in SysMasks}
    \cup {<<SIG_SETMASK, NoSet, "OK", sz>> :
             sz \in {SizeofUlong, SizeofSaMask + SizeofUlong}}

\* The mask held by the user's buffer
BufferMask(pid) ==
    [slot \in 0..(K_SIGACTION_MASK_WORDS - 1) |-> procs[pid].user_oldset[slot]]

\* The signal syscalls of one user process, with sends of the two signals that
\* cannot be overridden
NextSys ==
    \/ curr = InitTid /\ EnterScheduler(TASK_STATE_RUNNABLE, WOBJ_NONE, TRUE)
    \/ SwitchToTask(UserTid)
    \/ \E a \in SigactionArgs :
          curr = UserTid /\ Sigaction(a[1], a[2], a[3], a[4])
    \/ \E a \in SigprocmaskArgs :
          curr = UserTid /\ Sigprocmask(a[1], a[2], a[3], a[4])
    \/ /\ curr = UserTid
       /\ Sigprocmask(SIG_SETMASK,
                      OkSet(BufferMask(tasks[curr].pid), K_SIGACTION_MASK_WORDS),
                      "NULL", SizeofSaMask)
    \/ \E signum \in {SIGKILL, SIGSTOP} :
          curr = UserTid /\ Send(tasks[curr].pid, curr, signum, TRUE)

SpecSys == Init /\ [][NextSys]_vars

\* The pending bitmask of a user task is set and cleared bit by bit and looked
\* at, while the tasks are preempted and resumed
PendingSigs == {0, 1, NBITS, NBITS + 1, _NSIG, _NSIG + 1}

NextPending ==
    \/ \E signum \in PendingSigs : AddPending(UserTid, signum)
    \/ \E signum \in PendingSigs : DelPending(UserTid, signum)
    \/ \E signum \in PendingSigs : IsPending(UserTid, signum)
    \/ FirstPending(UserTid)
    \/ \E st \in {TASK_STATE_RUNNING, TASK_STATE_RUNNABLE}, ik \in BOOLEAN :
          EnterScheduler(st, WOBJ_NONE, ik)
    \/ \E ti \in Tids : SwitchToTask(ti)

SpecPending == Init /\ [][NextPending]_vars

\* The two system calls statement by statement, with the sends of the other
\* tasks between the statements
GateSigs == {0, 40}
GateActs == {NoAct, OkAct(UserHandler, {}), FaultAct}

NextGate ==
    \/ \E signum \in {SIGKILL, 40}, act \in GateActs, old \in {"NULL", "OK"} :
          SaChecks(signum, act, old, SizeofSaMask)
    \/ SaGate
    \/ SaReadOld
    \/ SaWriteNew
    \/ SaUngate
    \/ SaCopyOut
    \/ \E tid \in {InitTid, UserTid, KthreadTid}, signum \in GateSigs :
          SsGate(PidOf(tid), tid, signum, FALSE)
    \/ SsBody
    \/ SsUngate
    \/ \E other \in {InitTid, UserTid}, tid \in {InitTid, UserTid} :
          InterleavedSend(other, tid, tid, 40, FALSE)
    \/ EnterScheduler(TASK_STATE_RUNNABLE, WOBJ_NONE, TRUE)
    \/ \E ti \in Tids : SwitchToTask(ti)

SpecGate == Init /\ [][NextGate]_vars

\* Kernel threads are created, run, are preempted and exit
NextKthread ==
    \/ \E alloc_ok \in BOOLEAN : KthreadCreate(alloc_ok)
    \/ KthreadExit
    \/ \E st \in {TASK_STATE_RUNNING, TASK_STATE_RUNNABLE}, ik \in BOOLEAN :
          EnterScheduler(st, WOBJ_NONE, ik)
    \/ \E w \in WaitObjs : curr > KthreadTid /\ EnterScheduler(TASK_STATE_SLEEPING, w, TRUE)
    \/ \E t \in DOMAIN tasks : WakeUp(t, FALSE)
    \/ \E ti \in DOMAIN tasks : SwitchToTask(ti)

SpecKthread == Init /\ [][NextKthread]_vars

----------------------------------------------------------------------------
\* The claims

IsUser(t) == tasks[t].pid # KernelPid
Running == {t \in Tids : tasks[t].state = TASK_STATE_RUNNING}
HasPending(t) == \E slot \in DOMAIN tasks[t].pending_signums :
                    tasks[t].pending_signums[slot] # {}
SwitchCompleted == pc = "run" /\ last.op = "switch"

SendTo(t, signum) == last'.op = "send" /\ last'.tid = t /\ last'.signum = signum

\* ... that passed the checks of send_signal2 and reached do_send_signal
Delivered(t, signum) ==
    /\ SendTo(t, signum)
    /\ signum # 0
    /\ IsUser(t)
    /\ last'.pid = tasks[t].pid
    /\ tasks[t].state # TASK_STATE_ZOMBIE

Disposition(t, signum) == procs[tasks[t].pid].sa_handlers[signum - 1]

\* The action a signal resolves to: the default action when the disposition is
\* SIG_DFL (terminate where the table has none), "ignore" otherwise
ResolvedAction(t, signum) ==
    IF Disposition(t, signum) # SIG_DFL THEN "action_ignore"
    ELSE IF signal_default_actions(signum) = "NULL" THEN "action_terminate"
    ELSE signal_default_actions(signum)

PendingBit(tk, signum) ==
    ((signum - 1) % NBITS) \in tk.pending_signums[(signum - 1) \div NBITS]

EventCount(evs, kind, t, event) ==
    Cardinality({i \in DOMAIN evs : /\ evs[i].ev = kind
                                    /\ evs[i].tid = t
                                    /\ evs[i].event = event})

\* C2: a terminating signal sent to a task other than the current one sets the
\* signal's pending bit on the target; a target SLEEPING on a generic wait
\* object becomes RUNNABLE, a target SLEEPING on a mutex or a semaphore keeps
\* sleeping on it.
C2_TerminateOther ==
    [][\A t \in Tids, signum \in SendSigs :
          (/\ Delivered(t, signum)
           /\ ResolvedAction(t, signum) = "action_terminate"
           /\ t # curr)
          => /\ PendingBit(tasks'[t], signum)
             /\ last'.returned /\ last'.rc = 0
             /\ (tasks[t].state = TASK_STATE_SLEEPING
                    /\ tasks[t].wobj \notin {WOBJ_KMUTEX, WOBJ_SEM})
                => tasks'[t].state = TASK_STATE_RUNNABLE
             /\ (tasks[t].state = TASK_STATE_SLEEPING
                    /\ tasks[t].wobj \in {WOBJ_KMUTEX, WOBJ_SEM})
                => /\ tasks'[t].state = TASK_STATE_SLEEPING
                   /\ tasks'[t].wobj = tasks[t].wobj]_vars

\* A task sleeping on a mutex got a terminating signal: still asleep, bit set
C2_Witness ==
    /\ last.op = "send" /\ last.tid = UserTid /\ last.signum = 40
    /\ curr # UserTid
    /\ tasks[UserTid].state = TASK_STATE_SLEEPING
    /\ tasks[UserTid].wobj = WOBJ_KMUTEX
    /\ PendingBit(tasks[UserTid], 40)

\* C3: a terminating signal sent to the current task never returns to the
\* sender: task switching is re-enabled, the process is terminated with the
\* signal as the cause, the task ends as a ZOMBIE and no pending bit is set.
C3_TerminateSelf ==
    [][\A signum \in SendSigs :
          (/\ Delivered(curr, signum)
           /\ ResolvedAction(curr, signum) = "action_terminate")
          => /\ ~last'.returned
             /\ pc' = "sched"
             /\ curr' = curr
             /\ tasks'[curr].state = TASK_STATE_ZOMBIE
             /\ tasks'[curr].wstatus = TERMCODE(signum)
             /\ tasks'[curr].pending_signums = tasks[curr].pending_signums]_vars

C3_Witness ==
    /\ last.op = "send" /\ last.tid = curr /\ last.signum = 40
    /\ curr = UserTid
    /\ ~last.returned
    /\ tasks[curr].state = TASK_STATE_ZOMBIE
    /\ tasks[curr].wstatus = TERMCODE(40)
    /\ ~HasPending(curr)

\* C5: a kernel thread is never stopped and never has a pending signal; every
\* send to a kernel thread fails with -ESRCH and changes nothing.
C5_KernelThreadNoSignals ==
    [][\A t \in Tids :
          ~IsUser(t) =>
             /\ ~tasks'[t].stopped
             /\ ~HasPending(t)'
             /\ \A signum \in SendSigs :
                   SendTo(t, signum) =>
                      /\ last'.returned /\ last'.rc = -ESRCH
                      /\ tasks' = tasks /\ procs' = procs /\ curr' = curr
                      /\ pc' = pc /\ events' = <<>>]_vars

C5_Witness ==
    /\ last.op = "send" /\ last.tid = KthreadTid /\ last.signum = SIGSTOP
    /\ last.pid = KernelPid
    /\ last.returned /\ last.rc = -ESRCH
    /\ ~tasks[KthreadTid].stopped /\ ~HasPending(KthreadTid)

\* C6: signal 0 sent to an existing task that is not a kernel thread returns
\* success and changes nothing: no task or process field changes and no wake-up
\* or trace event is emitted.
C6_SignalZeroProbe ==
    [][\A t \in Tids :
          (/\ SendTo(t, 0)
           /\ IsUser(t)
           /\ last'.pid = tasks[t].pid)
          => /\ last'.returned /\ last'.rc = 0
             /\ tasks' = tasks /\ procs' = procs /\ curr' = curr
             /\ pc' = pc /\ preempt_disable_count' = preempt_disable_count
             /\ events' = <<>>]_vars

C6_Witness ==
    /\ last.op = "send" /\ last.tid = UserTid /\ last.signum = 0
    /\ last.pid = tasks[UserTid].pid
    /\ last.returned /\ last.rc = 0
    /\ tasks[UserTid].stopped

\* C7: while a process has SIG_IGN installed for a signal, sending that signal
\* to one of its tasks returns success and leaves the task's state, stop flag,
\* wait status and pending set as they were (a warning is printed for init).
C7_IgnoredSignal ==
    [][\A t \in Tids, signum \in SendSigs :
          (/\ SendTo(t, signum)
           /\ signum # 0
           /\ IsUser(t)
           /\ last'.pid = tasks[t].pid
           /\ Disposition(t, signum) = SIG_IGN)
          => /\ last'.returned /\ last'.rc = 0
             /\ tasks' = tasks /\ procs' = procs /\ curr' = curr /\ pc' = pc
             /\ \A i \in DOMAIN events' :
                   events'[i].ev = "printk" /\ t = InitTid]_vars

C7_Witness ==
    /\ last.op = "send" /\ last.tid = UserTid /\ last.signum = 40
    /\ last.pid = tasks[UserTid].pid
    /\ procs[tasks[UserTid].pid].sa_handlers[40 - 1] = SIG_IGN
    /\ last.returned /\ last.rc = 0
    /\ tasks[UserTid].state = TASK_STATE_SLEEPING
    /\ ~HasPending(UserTid)

\* C8: SIGCONT with the default disposition sent to a stopped user task that is
\* not vfork-suspended clears the stop flag, sets the wait status to
\* "continued" and wakes the waiters on `task continued' exactly once.
C8_ContinueStopped ==
    [][\A t \in Tids :
          (/\ Delivered(t, SIGCONT)
           /\ Disposition(t, SIGCONT) = SIG_DFL
           /\ tasks[t].stopped
           /\ ~tasks[t].vfork_stopped)
          => /\ ~tasks'[t].stopped
             /\ tasks'[t].wstatus = CONTINUED
             /\ EventCount(events', "wake", t, "task_continued") = 1
             /\ last'.returned /\ last'.rc = 0]_vars

C8_Witness ==
    /\ last.op = "send" /\ last.tid = UserTid /\ last.signum = SIGCONT
    /\ ~tasks[UserTid].stopped
    /\ tasks[UserTid].wstatus = CONTINUED
    /\ EventCount(events, "wake", UserTid, "task_continued") = 1

\* C9: on a vfork-suspended task the terminate action only sets the pending
\* bit (state and stop flag unchanged, nobody woken) and the continue action
\* does nothing at all.
C9_VforkSuspended ==
    [][\A t \in Tids, signum \in SendSigs :
          (/\ Delivered(t, signum)
           /\ t # curr
           /\ tasks[t].vfork_stopped)
          => /\ ResolvedAction(t, signum) = "action_terminate"
                => /\ tasks' = [tasks EXCEPT ![t].pending_signums =
                                   add_pending_sig(K, t, signum).tasks[t].pending_signums]
                   /\ PendingBit(tasks'[t], signum)
                   /\ tasks'[t].stopped
                   /\ events' = <<>>
             /\ ResolvedAction(t, signum) = "action_continue"
                => /\ tasks' = tasks
                   /\ events' = <<>>
             /\ procs' = procs /\ curr' = curr /\ pc' = pc]_vars

C9_Witness ==
    /\ last.op = "send" /\ last.tid = UserTid /\ last.signum = 40
    /\ tasks[UserTid].vfork_stopped
    /\ tasks[UserTid].stopped
    /\ tasks[UserTid].state = TASK_STATE_RUNNABLE
    /\ PendingBit(tasks[UserTid], 40)

\* C10: the stop action sets the stop flag, sets the wait status to
\* STOPCODE(signal) and wakes the waiters on `task stopped'; when the stopped
\* task is the sender it yields the CPU at once, so that a stopped task is
\* never the one running.
C10_StopAction ==
    [][/\ \A t \in Tids, signum \in SendSigs :
             (/\ Delivered(t, signum)
              /\ ResolvedAction(t, signum) = "action_stop")
             => /\ tasks'[t].stopped
                /\ tasks'[t].wstatus = STOPCODE(signum)
                /\ EventCount(events', "wake", t, "task_stopped") = 1
                /\ t = curr
                   => /\ ~last'.returned
                      /\ pc' = "sched"
                      /\ tasks'[t].state = TASK_STATE_RUNNABLE
                /\ t # curr => last'.returned /\ last'.rc = 0
       /\ pc' = "run" => ~tasks'[curr'].stopped]_vars

C10_Witness ==
    /\ last.op = "send" /\ last.tid = curr /\ last.signum = SIGSTOP
    /\ curr = UserTid
    /\ ~last.returned
    /\ pc = "sched"
    /\ tasks[curr].stopped
    /\ tasks[curr].wstatus = STOPCODE(SIGSTOP)
    /\ tasks[curr].state = TASK_STATE_RUNNABLE

\* --- the signal syscalls, under SpecSys ---

UnsupportedFlags == {"SA_SIGINFO", "SA_ONSTACK", "SA_NOCLDSTOP", "SA_NOCLDWAIT"}

\* C11: installing a disposition with one of the four unsupported flags set
\* (SA_SIGINFO, SA_ONSTACK, SA_NOCLDSTOP, SA_NOCLDWAIT) returns -EINVAL and
\* leaves the stored disposition of the signal as it was.
C11_UnsupportedFlags ==
    [][(/\ last'.op = "sigaction"
        /\ last'.act.ptr = "OK"
        /\ last'.act.sa_flags \cap UnsupportedFlags # {})
       => /\ last'.rc = -EINVAL
          /\ procs' = procs]_vars

\* A handler was installed; a later install with SA_ONSTACK failed and left it
C11_Witness ==
    /\ last.op = "sigaction" /\ last.signum = 40
    /\ last.act.ptr = "OK" /\ last.act.handler = SIG_IGN
    /\ "SA_ONSTACK" \in last.act.sa_flags
    /\ last.rc = -EINVAL
    /\ procs[last.pid].sa_handlers[40 - 1] = UserHandler

\* C12: sys_rt_sigaction rejects SIGKILL and SIGSTOP with -EINVAL; so their
\* stored disposition is SIG_DFL in every reachable state, and a send of them
\* runs the default action: SIGKILL terminates, SIGSTOP stops.
C12_KillStopNotOverridable ==
    [][/\ \A p \in Pids \ {KernelPid} :
             /\ procs'[p].sa_handlers[SIGKILL - 1] = SIG_DFL
             /\ procs'[p].sa_handlers[SIGSTOP - 1] = SIG_DFL
       /\ (last'.op = "sigaction" /\ last'.signum \in {SIGKILL, SIGSTOP})
          => last'.rc = -EINVAL /\ procs' = procs
       /\ Delivered(curr, SIGKILL)
          => /\ tasks'[curr].state = TASK_STATE_ZOMBIE
             /\ tasks'[curr].wstatus = TERMCODE(SIGKILL)
       /\ Delivered(curr, SIGSTOP)
          => /\ tasks'[curr].stopped
             /\ tasks'[curr].wstatus = STOPCODE(SIGSTOP)]_vars

C12_Witness ==
    /\ last.op = "sigaction" /\ last.signum = SIGKILL
    /\ last.act.ptr = "OK" /\ last.act.handler = SIG_IGN
    /\ last.rc = -EINVAL
    /\ procs[last.pid].sa_handlers[SIGKILL - 1] = SIG_DFL

\* C13: a signal syscall that returns -EFAULT has changed nothing: after
\* sys_rt_sigaction or sys_rt_sigprocmask returned -EFAULT the disposition
\* table and the blocked mask of the process are what they were before the
\* call; no word of a new mask whose copy failed is applied.
C13_FaultAppliesNothing ==
    [][(/\ last'.op \in {"sigaction", "sigprocmask"}
        /\ last'.rc = -EFAULT)
       => /\ procs'[last'.pid].sa_handlers = procs[last'.pid].sa_handlers
          /\ procs'[last'.pid].sa_mask = procs[last'.pid].sa_mask]_vars

\* A sys_rt_sigprocmask call whose new mask is readable in full
FullUpdate(how) ==
    /\ last'.op = "sigprocmask"
    /\ last'.how = how
    /\ last'.set.ptr = "OK"
    /\ last'.set.readable = K_SIGACTION_MASK_WORDS
    /\ last'.old # "FAULT"

\* C14: the blocked mask makes a round trip: a query stores the mask M0 in the
\* user's buffer, SIG_BLOCK ORs, SIG_UNBLOCK AND-NOTs and SIG_SETMASK replaces
\* each word, only a query writes the buffer, and a SIG_SETMASK of the queried
\* value makes the mask equal to M0 again, bit for bit.
C14_MaskRoundTrip ==
    [][LET pid == last'.pid
           mask == procs[pid].sa_mask
           mask2 == procs'[pid].sa_mask
           Slots == 0..(K_SIGACTION_MASK_WORDS - 1)
       IN last'.op = "sigprocmask" =>
          /\ (last'.old = "OK" /\ last'.size >= SizeofSaMask)
             => /\ \A i \in Slots : procs'[pid].user_oldset[i] = mask[i]
                /\ \A i \in DOMAIN procs'[pid].user_oldset \ Slots :
                      (i + 1) * SizeofUlong <= last'.size
                      => procs'[pid].user_oldset[i] = {}
          /\ last'.old # "OK" => procs'[pid].user_oldset = procs[pid].user_oldset
          /\ last'.set.ptr = "NULL" => mask2 = mask
          /\ FullUpdate(SIG_BLOCK)
             => \A i \in Slots : mask2[i] = mask[i] \cup last'.set.words[i]
          /\ FullUpdate(SIG_UNBLOCK)
             => \A i \in Slots : mask2[i] = mask[i] \ last'.set.words[i]
          /\ FullUpdate(SIG_SETMASK)
             => /\ mask2 = last'.set.words
                /\ last'.rc = 0
          /\ (/\ FullUpdate(SIG_SETMASK)
              /\ last'.old = "NULL"
              /\ last'.set.words = BufferMask(pid))
             => \A i \in Slots : mask2[i] = procs'[pid].user_oldset[i]]_vars

\* The mask was restored from the buffer, and it is not the empty one
C14_Witness ==
    /\ last.op = "sigprocmask" /\ last.how = SIG_SETMASK
    /\ last.set.ptr = "OK" /\ last.set.readable = K_SIGACTION_MASK_WORDS
    /\ last.old = "NULL" /\ last.rc = 0
    /\ last.set.words = BufferMask(last.pid)
    /\ procs[last.pid].sa_mask = BufferMask(last.pid)
    /\ procs[last.pid].sa_mask[0] = {}
    /\ procs[last.pid].sa_mask[1] = {TestBit(1)}

InvalidHow == last'.op = "sigprocmask"
              /\ last'.how \notin {SIG_BLOCK, SIG_UNBLOCK, SIG_SETMASK}

\* C15 as stated: every sys_rt_sigprocmask call whose `how' is none of
\* SIG_BLOCK, SIG_UNBLOCK and SIG_SETMASK returns -EINVAL and leaves the
\* blocked mask unchanged.
C15_InvalidHowRejected ==
    [][InvalidHow
       => /\ last'.rc = -EINVAL
          /\ procs'[last'.pid].sa_mask = procs[last'.pid].sa_mask]_vars

\* C15 as the code has it: such a call never changes the blocked mask; it
\* returns -EINVAL when the new mask is given and its first word is readable
\* (and the old-mask buffer, if given, is writable), and 0 when no new mask is
\* given, `how' being examined only while a word is applied.
C15_InvalidHowWithSet ==
    [][InvalidHow
       => /\ procs'[last'.pid].sa_mask = procs[last'.pid].sa_mask
          /\ (last'.set.ptr = "OK" /\ last'.set.readable >= 1 /\ last'.old # "FAULT")
             => last'.rc = -EINVAL
          /\ (last'.set.ptr = "NULL" /\ last'.old # "FAULT")
             => last'.rc = 0]_vars

C15_Witness ==
    /\ last.op = "sigprocmask"
    /\ last.how \notin {SIG_BLOCK, SIG_UNBLOCK, SIG_SETMASK}
    /\ last.set.ptr = "OK" /\ last.set.readable = K_SIGACTION_MASK_WORDS
    /\ last.set.words[0] = {}
    /\ last.rc = -EINVAL
    /\ procs[last.pid].sa_mask[0] = {TestBit(0)}

\* --- switch_to_task(curr), under SpecSwitch ---

\* The step is a whole switch_to_task(curr) of a RUNNING current task
SelfSwitch ==
    /\ pc = "sched"
    /\ pc' # "sw_user"
    /\ last'.op = "switch"
    /\ last'.tid = curr
    /\ tasks[curr].state = TASK_STATE_RUNNING

CreatedThreads == DOMAIN tasks \ Tids

\* C17: whenever another task runs after kthread_create2 returned a tid, its
\* creator first of all, the thread of that tid is RUNNABLE or, having run to
\* completion, a ZOMBIE, and never in any other state.
C17_NewThreadRunnableOrZombie ==
    \A t \in CreatedThreads :
       (pc = "run" /\ curr # t)
       => tasks[t].state \in {TASK_STATE_RUNNABLE, TASK_STATE_ZOMBIE}

\* C17, amended: whenever another task runs after kthread_create2 returned a
\* tid, the thread of that tid is RUNNABLE, a ZOMBIE, or SLEEPING on the wait
\* object its entry function blocked on; it is never RUNNING and never in the
\* state it was allocated in, and right after the call it is RUNNABLE in kernel
\* mode while its creator still runs.
C17_NewThreadNeverHalfMade ==
    /\ \A t \in CreatedThreads :
          (pc = "run" /\ curr # t)
          => \/ tasks[t].state \in {TASK_STATE_RUNNABLE, TASK_STATE_ZOMBIE}
             \/ tasks[t].state = TASK_STATE_SLEEPING /\ tasks[t].wobj # WOBJ_NONE
    /\ (last.op = "kthread_create" /\ last.rc > 0)
       => /\ last.rc \in CreatedThreads
          /\ tasks[last.rc].state = TASK_STATE_RUNNABLE
          /\ tasks[last.rc].running_in_kernel
          /\ is_kernel_thread(K, last.rc)
          /\ curr = last.tid
          /\ tasks[curr].state = TASK_STATE_RUNNING

\* The new thread ran and blocked before another task, here init, ran again
C17_Witness ==
    /\ pc = "run"
    /\ curr = InitTid
    /\ KthreadTid + 1 \in CreatedThreads
    /\ tasks[KthreadTid + 1].state = TASK_STATE_SLEEPING

\* --- The pending bitmask, under SpecPending ---

BitmaskOp == last'.op \in {"add_pending", "del_pending", "is_pending"}

\* No word outside pending_signums and no bit outside a word
BitmaskInBounds ==
    \A t \in DOMAIN tasks :
       /\ DOMAIN tasks[t].pending_signums = 0..(K_SIGACTION_MASK_WORDS - 1)
       /\ \A slot \in DOMAIN tasks[t].pending_signums :
             tasks[t].pending_signums[slot] \subseteq 0..(NBITS - 1)

PendingSet(mask) ==
    {signum \in 1.._NSIG :
        (signum - 1) % NBITS \in mask[(signum - 1) \div NBITS]}

LowestPending(mask) ==
    CHOOSE signum \in PendingSet(mask) : \A other \in PendingSet(mask) : signum <= other

\* A switch_to_task step in which process_signals terminated task t
TerminatedBySwitch(t) ==
    /\ last'.op = "switch"
    /\ tasks[t].state # TASK_STATE_ZOMBIE
    /\ tasks'[t].state = TASK_STATE_ZOMBIE

\* C19: get_first_pending_sig returns the lowest signal whose bit is set, and
\* -1 exactly when the bitmask is empty; and a task that process_signals
\* terminates on the way to user mode has the lowest of its pending signals as
\* the cause, which is also the signal traced as delivered.
C19_LowestPendingFirst ==
    [][/\ last'.op = "first_pending"
          => LET mask == tasks[last'.tid].pending_signums
             IN /\ (last'.rc = -1) <=> (PendingSet(mask) = {})
                /\ PendingSet(mask) # {} => last'.rc = LowestPending(mask)
                /\ tasks' = tasks
       /\ \A t \in Tids :
             TerminatedBySwitch(t)
             => LET mask == tasks[t].pending_signums
                IN /\ PendingSet(mask) # {}
                   /\ tasks'[t].wstatus = TERMCODE(LowestPending(mask))
                   /\ \E i \in DOMAIN events' :
                         events'[i] = [ev |-> "trace", tid |-> t,
                                       signum |-> LowestPending(mask), event |-> ""]]_vars

\* The user task was terminated on its way back to user mode with signals
\* NBITS and _NSIG pending, the first one being the cause
C19_Witness ==
    /\ last.op = "switch"
    /\ last.tid = UserTid
    /\ tasks[UserTid].state = TASK_STATE_ZOMBIE
    /\ PendingSet(tasks[UserTid].pending_signums) = {NBITS, _NSIG}
    /\ tasks[UserTid].wstatus = TERMCODE(NBITS)

\* --- The preemption gate, under SpecGate ---

\* The statements of sys_rt_sigaction and send_signal2 between
\* disable_preemption() and enable_preemption()
GatedStatements == {"sa_read", "sa_write", "sa_ungate", "ss_body", "ss_ungate"}

PendingMutated ==
    \E t \in Tids : tasks'[t].pending_signums # tasks[t].pending_signums

DispositionWritten ==
    \E p \in Pids : procs'[p].sa_handlers # procs[p].sa_handlers

\* A statement of the current task's own system call, which moves it on; the
\* send of another task leaves it where it is
OwnStatement == pc' # pc

\* C20: the statements of send_signal2 and sys_rt_sigaction that change a
\* pending bitmask or read or write a disposition run with the preemption gate
\* held; and from the read of the old disposition to the write of the new one
\* the gate stays held, so that the sends of other tasks run before the first or
\* after the second, never between them.
C20_GateHeld ==
    /\ [](pc \in GatedStatements => preempt_disable_count > 0)
    /\ [](last.interleaved \cap GatedStatements = {})
    /\ [][(OwnStatement /\ (PendingMutated \/ DispositionWritten))
          => (pc \in GatedStatements /\ preempt_disable_count > 0)]_vars
    /\ [][(pc = "sa_read" /\ pc' = "sa_write")
          => /\ preempt_disable_count' = preempt_disable_count
             /\ preempt_disable_count > 0
             /\ procs' = procs]_vars

\* An install-with-query call returned the old disposition and installed the
\* new one, and other tasks sent signals both before its gated section and
\* after it
C20_Witness ==
    /\ last.op = "sigaction"
    /\ last.returned
    /\ last.rc = 0
    /\ last.out.stored
    /\ last.out.handler = SIG_DFL
    /\ procs[last.pid].sa_handlers[last.signum - 1] = UserHandler
    /\ last.interleaved = {"sa_gate", "sa_copy"}

\* --- ZOMBIE targets, under Spec ---

\* C21: a send_signal2 call that names a ZOMBIE task and its process returns 0
\* whatever the signal and its disposition, and changes nothing: the task's
\* state, pending bitmask, stop flag and wait status stay as they were, as does
\* everything else, and no event (wake-up, trace, warning) is emitted.
C21_ZombieAbsorbing ==
    [][\A t \in Tids, signum \in SendSigs :
          (/\ SendTo(t, signum)
           /\ IsUser(t)
           /\ last'.pid = tasks[t].pid
           /\ tasks[t].state = TASK_STATE_ZOMBIE)
          => /\ last'.returned /\ last'.rc = 0
             /\ tasks' = tasks /\ procs' = procs /\ curr' = curr /\ pc' = pc
             /\ preempt_disable_count' = preempt_disable_count
             /\ events' = <<>>]_vars

\* SIGCONT was sent to the user task after a signal had terminated it
C21_Witness ==
    /\ last.op = "send" /\ last.tid = UserTid /\ last.signum = SIGCONT
    /\ last.pid = tasks[UserTid].pid
    /\ last.returned /\ last.rc = 0
    /\ tasks[UserTid].state = TASK_STATE_ZOMBIE
    /\ tasks[UserTid].wstatus.code # "none"

\* --- Custom handlers, under SpecGate ---

\* The statement of send_signal2 that reaches do_send_signal for task t while
\* the process of t has a handler of its own installed for the signal
CustomDispatch(t) ==
    /\ pc = "ss_body" /\ pc' # pc
    /\ last.tid = t
    /\ last.signum # 0
    /\ IsUser(t)
    /\ last.pid = tasks[t].pid
    /\ tasks[t].state # TASK_STATE_ZOMBIE
    /\ Disposition(t, last.signum) \notin {SIG_DFL, SIG_IGN}

\* The same statement run with SIG_IGN installed instead
DispatchIgnored ==
    send_signal2_body(
        [KF EXCEPT !.procs[last.pid].sa_handlers[last.signum - 1] = SIG_IGN],
        last.pid, last.tid, last.signum, last.whole_process)

\* C22: for every target task, init included, do_send_signal with a custom
\* handler installed changes the state and emits the events (warnings, wake-ups,
\* traces) exactly as it does with SIG_IGN installed.
C22_CustomHandlerAsIgnore ==
    [][\A t \in Tids :
          CustomDispatch(t)
          => /\ tasks' = DispatchIgnored.tasks
             /\ procs' = procs
             /\ curr' = DispatchIgnored.curr
             /\ pc' = DispatchIgnored.pc
             /\ preempt_disable_count' = DispatchIgnored.preempt
             /\ last'.rc = DispatchIgnored.rc
             /\ events' = DispatchIgnored.events]_vars

\* --- The tail of switch_to_task, under SpecSwitch ---

\* The statements of the tail that follow disable_interrupts_forced()
AfterIrqOff == {"sw_preempt", "sw_stack", "sw_curr", "sw_timer", "sw_ctx"}

\* A switch to another task is under way and its target is RUNNING already
TargetRunningNotCurrent ==
    /\ pc \in {"sw_user", "sw_irq"} \cup AfterIrqOff
    /\ sw_ti # curr
    /\ tasks[sw_ti].state = TASK_STATE_RUNNING

C24_GateBalanced ==
    [][(last'.op = "kthread_create" /\ last'.returned)
       => /\ preempt_disable_count' = preempt_disable_count
          /\ last'.rc < 0 => tasks' = tasks]_vars

====
